---- MODULE Spec2Model ----
(***************************************************************************)
(* Request pipeline of the Strike NWC wallet service (index.js, held here  *)
(* as src/unnamed/part_000, and src/src/strike.js).                        *)
(*                                                                         *)
(* The relay delivers request events; each delivery starts one             *)
(* handleNwcRequest task.  A task runs without interruption up to its      *)
(* provider call (the only await on an outside party), is suspended there, *)
(* and is resumed when the provider call resolves or rejects.  The two     *)
(* module-level variables (totalAmountSentInSats, cachedInvoiceResults)    *)
(* are shared by every task.  The awaits of decrypt and encrypt touch no   *)
(* shared state: decryption is part of the delivery step, and a response   *)
(* (serialized at line 130, before encrypt is awaited) is published in the *)
(* step that ends the task.  A provider call may stay unresolved forever.  *)
(*                                                                         *)
(* Representation.  JavaScript undefined and null are the strings          *)
(* Undefined and Null where a string is expected.  An optional field, and  *)
(* the local result (null or a value), is a sequence of length 0 or 1.     *)
(* Amounts in sats are held as integer millisats, since the code computes  *)
(* value / 1000 and a sat amount may be fractional.                        *)
(***************************************************************************)
EXTENDS Integers, Sequences, FiniteSets, TLC

VARIABLES
    totalAmountSentInSats,  \* part_000:27, in millisats
    cachedInvoiceResults,   \* part_000:28, own properties: invoice string -> record
    received,               \* request events the relay has delivered, in order
    tasks,                  \* one handleNwcRequest task per delivered event
    published,              \* response events handed to relay.publish, in order
    strikeCalls,            \* calls made to the functions of strike.js, in order
    strikeInvoices          \* provider side: invoiceId -> state of the invoice

vars == <<totalAmountSentInSats, cachedInvoiceResults, received, tasks,
          published, strikeCalls, strikeInvoices>>

---------------------------------------------------------------------------
(* Bounds of the model *)

\* how many request events the relay delivers in one run: of any kind (Spec), of
\* pay_invoice alone (SpecPay), of make_invoice and lookup_invoice alone (SpecInvoice)
MaxEvents == 2
MaxPayEvents == 3
MaxInvoiceEvents == 3
MaxStallEvents == 3

\* configured ceiling ./constants exports, in whole sats
TOTAL_MAX_SEND_AMOUNT_IN_SATS == 2

---------------------------------------------------------------------------
(* Configuration and constants of the program *)

NWC_CONNECTION_PUBKEY == "connection-pubkey"
AUTHORIZED_PUBKEY == "authorized-pubkey"
StrangerPubkey == "stranger-pubkey"

UNAUTHORIZED == "UNAUTHORIZED"
NOT_IMPLEMENTED == "NOT_IMPLEMENTED"
QUOTA_EXCEEDED == "QUOTA_EXCEEDED"
PAYMENT_FAILED == "PAYMENT_FAILED"
INTERNAL == "INTERNAL"
NOT_FOUND == "NOT_FOUND"
INVALID_PARAMS == "INVALID_PARAMS"

\* divisor of extractAmountInSats
MillisatsPerSat == 1000

\* default page size and the page size limits of get_transactions
DefaultLimit == 10
MinLimit == 1
MaxLimit == 100

Undefined == "<undefined>"
Null == "<null>"
Absent == << >>
Some(v) == << v >>

\* messages of the errors the runtime and the decoder raise themselves
TypeErrorNullMethod == "Cannot read properties of null (reading 'method')"
TypeErrorNoAmountParam == "Cannot destructure property 'amount' of 'nwcRequestContent.params' as it is undefined."
TypeErrorNoInvoiceParam == "Cannot destructure property 'invoice' of 'nwcRequestContent.params' as it is undefined."
TypeErrorNoAmountSection == "Cannot read properties of undefined (reading 'value')"
DecodeErrorMessage == "Not a proper lightning payment request"

---------------------------------------------------------------------------
(* Request events *)

EmptyParams ==
    [invoice |-> Absent, amount |-> Absent, description |-> Absent,
     currency |-> Absent, limit |-> Absent, offset |-> Absent]

\* content that decrypts and parses to an object with these fields
Request(method, params) ==
    [decryptable |-> TRUE, payload |-> "object", method |-> method, params |-> params]

\* content that decrypts and parses to the JSON value null
NullPayload ==
    [decryptable |-> TRUE, payload |-> "null", method |-> Undefined, params |-> Absent]

\* content that nip04 decrypt or JSON.parse rejects
Garbage ==
    [decryptable |-> FALSE, payload |-> "null", method |-> Undefined, params |-> Absent]

\* bolt11 strings with an amount, and the millisats their amount section holds
Bolt11Millisats ==
    [i \in {"lnbc5n", "lnbc10n", "lnbc20n"} |->
        CASE i = "lnbc5n" -> 500
          [] i = "lnbc10n" -> 1000
          [] i = "lnbc20n" -> 2000]

\* a bolt11 string that names no amount
Bolt11NoAmount == "lnbc"

\* invoice strings the provider issues for make_invoice, by invoiceId
IssuedInvoices == <<"lnbc10n1pa", "lnbc10n1pb", "lnbc10n1pc", "lnbc10n1pd">>

\* property names every JavaScript object inherits from Object.prototype
ObjectPrototypeKeys == {"constructor", "toString", "__proto__"}

PayContents ==
    {Request("pay_invoice", Some([EmptyParams EXCEPT !.invoice = Some(i)])) :
        i \in DOMAIN Bolt11Millisats \cup {Bolt11NoAmount, "not-an-invoice"}}
    \cup {Request("pay_invoice", Some(EmptyParams))}

MakeContents ==
    {Request("make_invoice",
             Some([EmptyParams EXCEPT !.amount = Some(1000), !.description = Some("coffee")])),
     Request("make_invoice", Absent)}

LookupContents(invoices) ==
    {Request("lookup_invoice", Some([EmptyParams EXCEPT !.invoice = Some(i)])) :
        i \in invoices \cup {"constructor", "unknown-string"}}
    \cup {Request("lookup_invoice", Some(EmptyParams)), Request("lookup_invoice", Absent)}

RatesContents ==
    {Request("get_exchange_rates", Some([EmptyParams EXCEPT !.currency = Some("EUR")])),
     Request("get_exchange_rates", Some(EmptyParams)),
     Request("get_exchange_rates", Absent)}

AccountContents ==
    {Request("get_account_details", Absent), Request("get_balance", Absent)}

TransactionsContents ==
    {Request("get_transactions", Some([EmptyParams EXCEPT !.limit = Some(l)])) :
        l \in {0, 1, 100, 101}}
    \cup {Request("get_transactions", Some([EmptyParams EXCEPT !.offset = Some(o)])) :
        o \in {-1, 5}}
    \cup {Request("get_transactions", Some(EmptyParams)), Request("get_transactions", Absent)}

SupportedMethods ==
    {"pay_invoice", "make_invoice", "lookup_invoice", "get_exchange_rates",
     "get_account_details", "get_balance", "get_transactions"}

UnsupportedContents ==
    {Request(m, p) : m \in {"", Null, Undefined, "get_info"}, p \in {Absent}}

Contents ==
    PayContents \cup {Request("pay_invoice", Absent)} \cup MakeContents
    \cup LookupContents({IssuedInvoices[1]}) \cup RatesContents
    \cup AccountContents \cup TransactionsContents \cup UnsupportedContents
    \cup {NullPayload, Garbage}

\* what a sender other than the connection key is modelled to send
StrangerContents ==
    {Request("pay_invoice", Some([EmptyParams EXCEPT !.invoice = Some("lnbc10n")])),
     Request("make_invoice",
             Some([EmptyParams EXCEPT !.amount = Some(1000), !.description = Some("coffee")])),
     Request("lookup_invoice", Some([EmptyParams EXCEPT !.invoice = Some(IssuedInvoices[1])])),
     Request("get_exchange_rates", Some([EmptyParams EXCEPT !.currency = Some("EUR")])),
     Request("get_balance", Absent),
     Request("get_transactions", Some(EmptyParams)),
     Request("get_info", Absent),
     NullPayload, Garbage}

EventsOf(ids, pubkey, contents) ==
    {[id |-> n, pubkey |-> pubkey, content |-> c] : n \in ids, c \in contents}

\* the events of the three specifications
Events ==
    EventsOf(1..MaxEvents, NWC_CONNECTION_PUBKEY, Contents)
    \cup EventsOf(1..MaxEvents, StrangerPubkey, StrangerContents)

PayEvents == EventsOf(1..MaxPayEvents, NWC_CONNECTION_PUBKEY, PayContents)

InvoiceEvents ==
    EventsOf(1..MaxInvoiceEvents, NWC_CONNECTION_PUBKEY,
             MakeContents \cup LookupContents({IssuedInvoices[1], IssuedInvoices[2]}))

\* a payment, a query, and one request for each way of failing before the
\* provider: a handler that throws, a method with no handler, content that does
\* not decrypt
StallContents ==
    {Request("pay_invoice", Some([EmptyParams EXCEPT !.invoice = Some("lnbc10n")])),
     Request("get_balance", Absent),
     Request("make_invoice", Absent),
     Request("get_info", Absent),
     Garbage}

StallEvents == EventsOf(1..MaxStallEvents, NWC_CONNECTION_PUBKEY, StallContents)

---------------------------------------------------------------------------
(* JavaScript helpers *)

\* nwcRequestContent.params?.field : the field as an optional value
Opt(c, field) == IF c.params = Absent THEN Absent ELSE c.params[1][field]

\* truthiness of an optional string and of an optional number
TruthyString(o) == o # Absent /\ o[1] \notin {"", Null, Undefined}
TruthyNumber(o) == o # Absent /\ o[1] # 0

\* an optional string as a value of the language
StringValue(o) == IF o = Absent THEN Undefined ELSE o[1]

\* an optional string as a property key: undefined names the key "undefined"
PropertyKey(o) == IF o = Absent THEN "undefined" ELSE o[1]

---------------------------------------------------------------------------
(* Pure functions of the program *)

\* what a handler does up to its first await: it throws, or it calls the provider
Throws(code) ==
    [errorCode |-> code, op |-> Null, args |-> << >>, amountInSats |-> 0, key |-> ""]
Calls(op, args, amountInSats, key) ==
    [errorCode |-> Null, op |-> op, args |-> args, amountInSats |-> amountInSats, key |-> key]

getErrorMessage(requestMethod, errorCode) ==
    CASE errorCode = UNAUTHORIZED ->
            [text |-> "Unable to decrypt NWC request content or unauthorized sender.",
             requestMethod |-> "", quota |-> 0]
      [] errorCode = NOT_IMPLEMENTED ->
            [text |-> "${requestMethod} not currently supported.",
             requestMethod |-> requestMethod, quota |-> 0]
      [] errorCode = QUOTA_EXCEEDED ->
            [text |-> "Payment would exceed max quota of ${TOTAL_MAX_SEND_AMOUNT_IN_SATS}.",
             requestMethod |-> "", quota |-> TOTAL_MAX_SEND_AMOUNT_IN_SATS]
      [] errorCode = PAYMENT_FAILED ->
            [text |-> "Unable to complete payment.", requestMethod |-> "", quota |-> 0]
      [] errorCode = NOT_FOUND ->
            [text |-> "Unable to find invoice.", requestMethod |-> "", quota |-> 0]
      [] errorCode = INVALID_PARAMS ->
            [text |-> "Invalid parameters provided for the request.",
             requestMethod |-> "", quota |-> 0]
      [] OTHER ->
            [text |-> "Something unexpected happened.", requestMethod |-> "", quota |-> 0]

\* mutant of makeNwcResponseEvent: content.result is set before errorCode is
\* looked at, so an error response carries a result key as well
makeNwcResponseEvent_resultAlways(eventId, requestMethod, result, errorCode) ==
    [kind |-> "NWCWalletResponse",
     tags |-> <<[name |-> "p", value |-> Some(AUTHORIZED_PUBKEY), id |-> Absent],
                [name |-> "e", value |-> Absent, id |-> Some(eventId)]>>,
     content |->
        IF errorCode \notin {Null, ""}
        THEN [result_type |-> requestMethod,
              error |-> Some([code |-> errorCode,
                              message |-> getErrorMessage(requestMethod, errorCode)]),
              result |-> Some(result)]
        ELSE [result_type |-> requestMethod, error |-> Absent, result |-> Some(result)]]

\* the signed response event; result is Absent for null, errorCode a string or Null;
\* in the content, Absent is a key that is not there
makeNwcResponseEvent(eventId, requestMethod, result, errorCode) ==
    [kind |-> "NWCWalletResponse",
     tags |-> <<[name |-> "p", value |-> Some(AUTHORIZED_PUBKEY), id |-> Absent],
                [name |-> "e", value |-> Absent, id |-> Some(eventId)]>>,
     content |->
        IF errorCode \notin {Null, ""}
        THEN [result_type |-> requestMethod,
              error |-> Some([code |-> errorCode,
                              message |-> getErrorMessage(requestMethod, errorCode)]),
              result |-> Absent]
        ELSE [result_type |-> requestMethod, error |-> Absent, result |-> Some(result)]]

\* lightBolt11Decoder.decode: it throws, or it returns the sections of the invoice
lightBolt11Decoder_decode(invoice) ==
    IF invoice \in DOMAIN Bolt11Millisats
    THEN [ok |-> TRUE, sections |-> {[name |-> "amount", value |-> Bolt11Millisats[invoice]]}]
    ELSE IF invoice = Bolt11NoAmount
    THEN [ok |-> TRUE, sections |-> {}]
    ELSE [ok |-> FALSE, sections |-> {}]

\* value / 1000 sats, which is value millisats; ok is FALSE where the code throws
extractAmountInSats(invoice) ==
    LET decoded == lightBolt11Decoder_decode(invoice)
        amount == {sec \in decoded.sections : sec.name = "amount"}
    IN  IF ~decoded.ok THEN [ok |-> FALSE, message |-> DecodeErrorMessage, value |-> 0]
        ELSE IF amount = {}
        THEN [ok |-> FALSE, message |-> TypeErrorNoAmountSection, value |-> 0]
        ELSE [ok |-> TRUE, message |-> "",
              value |-> (CHOOSE sec \in amount : TRUE).value]

\* cachedInvoiceResults[key]: an own property, an inherited one, or undefined
CacheGet(cache, key) ==
    IF key \in DOMAIN cache THEN "own"
    ELSE IF key \in ObjectPrototypeKeys THEN "inherited"
    ELSE "undefined"

---------------------------------------------------------------------------
(* The handlers, up to their provider call *)

\* mutants of exceedsQuota: the request's amount alone is compared with the
\* ceiling; a payment that reaches the ceiling exactly is refused
exceedsQuota_ignoresTotal(total, amountInSats) ==
    amountInSats > TOTAL_MAX_SEND_AMOUNT_IN_SATS * MillisatsPerSat
exceedsQuota_atCeiling(total, amountInSats) ==
    total + amountInSats >= TOTAL_MAX_SEND_AMOUNT_IN_SATS * MillisatsPerSat

\* line 159: the admission check
exceedsQuota(total, amountInSats) ==
    total + amountInSats > TOTAL_MAX_SEND_AMOUNT_IN_SATS * MillisatsPerSat

handlePayInvoiceRequest(c, total) ==
    LET invoice == Opt(c, "invoice")
        extracted == IF TruthyString(invoice)
                     THEN extractAmountInSats(invoice[1])
                     ELSE [ok |-> TRUE, message |-> "", value |-> 0]
        amountInSats == extracted.value
    IN  IF ~extracted.ok THEN Throws(extracted.message)
        ELSE IF exceedsQuota(total, amountInSats) THEN Throws(QUOTA_EXCEEDED)
        ELSE Calls("payInvoice", <<StringValue(invoice)>>, amountInSats, "")

handleMakeInvoiceRequest(c) ==
    IF c.params = Absent THEN Throws(TypeErrorNoAmountParam)
    ELSE Calls("makeInvoice", <<Opt(c, "amount"), Opt(c, "description")>>, 0, "")

handleLookupInvoiceRequest(c, cache) ==
    IF c.params = Absent THEN Throws(TypeErrorNoInvoiceParam)
    ELSE LET key == PropertyKey(Opt(c, "invoice"))
             cachedInvoiceResult == CacheGet(cache, key)
         IN  CASE cachedInvoiceResult = "undefined" -> Throws(NOT_FOUND)
               [] cachedInvoiceResult = "inherited" -> Throws(INTERNAL)
               [] OTHER -> Calls("lookupInvoice", <<cache[key].metadata.invoice_id>>, 0, key)

handleGetExchangeRatesRequest(c) ==
    LET currency == Opt(c, "currency")
    IN  IF TruthyString(currency)
        THEN Calls("getExchangeRates", <<currency[1]>>, 0, "")
        ELSE Throws(INTERNAL)

handleGetAccountDetailsRequest == Calls("getAccountDetails", << >>, 0, "")

handleGetBalanceRequest == Calls("getBalance", << >>, 0, "")

handleGetTransactionsRequest(c) ==
    LET limit == IF TruthyNumber(Opt(c, "limit")) THEN Opt(c, "limit")[1] ELSE DefaultLimit
        offset == IF TruthyNumber(Opt(c, "offset")) THEN Opt(c, "offset")[1] ELSE 0
    IN  IF limit < MinLimit \/ limit > MaxLimit \/ offset < 0
        THEN Throws(INVALID_PARAMS)
        ELSE Calls("getTransactions", <<limit, offset>>, 0, "")

\* nwcRequestContent?.method ?? "unknown"
requestMethodOf(c) ==
    IF ~c.decryptable \/ c.payload = "null" \/ c.method \in {Undefined, Null}
    THEN "unknown"
    ELSE c.method

\* the handler a supported method names
handlerOf(c, total, cache) ==
    CASE c.method = "pay_invoice" -> handlePayInvoiceRequest(c, total)
      [] c.method = "make_invoice" -> handleMakeInvoiceRequest(c)
      [] c.method = "lookup_invoice" -> handleLookupInvoiceRequest(c, cache)
      [] c.method = "get_exchange_rates" -> handleGetExchangeRatesRequest(c)
      [] c.method = "get_account_details" -> handleGetAccountDetailsRequest
      [] c.method = "get_balance" -> handleGetBalanceRequest
      [] c.method = "get_transactions" -> handleGetTransactionsRequest(c)

\* mutant of dispatch: the switch has no default case, so an unsupported method
\* leaves errorCode and result null
dispatch_noDefault(c, total, cache) ==
    IF c.method \in SupportedMethods THEN handlerOf(c, total, cache) ELSE Throws(Null)

\* lines 297-321: the switch on nwcRequestContent.method
dispatch(c, total, cache) ==
    IF c.method \in SupportedMethods
    THEN handlerOf(c, total, cache)
    ELSE Throws(NOT_IMPLEMENTED)

\* mutant of handleNwcRequestStart: the sender of the event is not compared with
\* the connection key
handleNwcRequestStart_senderUnchecked(event, total, cache) ==
    LET c == event.content
    IN  IF ~c.decryptable THEN Throws(UNAUTHORIZED)
        ELSE IF c.payload = "null" THEN Throws(TypeErrorNullMethod)
        ELSE dispatch(c, total, cache)

\* handleNwcRequest from its start to the first provider call or to its catch
handleNwcRequestStart(event, total, cache) ==
    LET c == event.content
    IN  IF ~c.decryptable THEN Throws(UNAUTHORIZED)
        ELSE IF event.pubkey # NWC_CONNECTION_PUBKEY THEN Throws(UNAUTHORIZED)
        ELSE IF c.payload = "null" THEN Throws(TypeErrorNullMethod)
        ELSE dispatch(c, total, cache)

---------------------------------------------------------------------------
(* State *)

Init ==
    /\ totalAmountSentInSats = 0
    /\ cachedInvoiceResults = << >>
    /\ received = << >>
    /\ tasks = << >>
    /\ published = << >>
    /\ strikeCalls = << >>
    /\ strikeInvoices = << >>

\* a task awaiting its provider call, with the locals it resumes with
Suspended(s) ==
    [pc |-> s.op, amountInSats |-> s.amountInSats, key |-> s.key,
     errorCode |-> Null, result |-> Absent]

\* mutant of Respond: the response is published in the try block and again after it
Respond_twice(id, event, task, result, errorCode, built) ==
    LET response == makeNwcResponseEvent(event.id, requestMethodOf(event.content),
                                         result, errorCode)
    IN  /\ published' = IF built THEN published \o <<response, response>> ELSE published
        /\ tasks' =
              [n \in DOMAIN tasks \cup {id} |->
                  IF n = id
                  THEN [task EXCEPT !.pc = IF built THEN "done" ELSE "failed to publish",
                                    !.errorCode = errorCode,
                                    !.result = result]
                  ELSE tasks[n]]

\* lines 326-338 of a task whose try block ended with this result and errorCode:
\* the response is built and published, or building it throws and that is logged
Respond(id, event, task, result, errorCode, built) ==
    /\ published' =
          IF built
          THEN Append(published,
                      makeNwcResponseEvent(event.id, requestMethodOf(event.content),
                                           result, errorCode))
          ELSE published
    /\ tasks' =
          [n \in DOMAIN tasks \cup {id} |->
              IF n = id
              THEN [task EXCEPT !.pc = IF built THEN "done" ELSE "failed to publish",
                                !.errorCode = errorCode,
                                !.result = result]
              ELSE tasks[n]]

---------------------------------------------------------------------------
(* Actions *)

\* mutant of onevent: the listener awaits each task, so an event is taken only
\* when every earlier task has ended
onevent_awaited(event) ==
    /\ \A id \in DOMAIN tasks : tasks[id].pc \in {"done", "failed to publish"}
    /\ event.id = Len(received) + 1
    /\ received' = Append(received, event)
    /\ LET s == handleNwcRequestStart(event, totalAmountSentInSats, cachedInvoiceResults)
       IN  IF s.op # Null
           THEN /\ tasks' = Append(tasks, Suspended(s))
                /\ strikeCalls' =
                       Append(strikeCalls, [task |-> event.id, op |-> s.op, args |-> s.args])
                /\ UNCHANGED published
           ELSE /\ \E built \in BOOLEAN :
                       Respond(event.id, event, Suspended(s), Absent, s.errorCode, built)
                /\ UNCHANGED strikeCalls
    /\ UNCHANGED <<totalAmountSentInSats, cachedInvoiceResults, strikeInvoices>>

\* the relay delivers a request event: handleNwcRequest runs to its first
\* provider call, or to the end when no provider call is made
onevent(event) ==
    /\ event.id = Len(received) + 1
    /\ received' = Append(received, event)
    /\ LET s == handleNwcRequestStart(event, totalAmountSentInSats, cachedInvoiceResults)
       IN  IF s.op # Null
           THEN /\ tasks' = Append(tasks, Suspended(s))
                /\ strikeCalls' =
                       Append(strikeCalls, [task |-> event.id, op |-> s.op, args |-> s.args])
                /\ UNCHANGED published
           ELSE /\ \E built \in BOOLEAN :
                       Respond(event.id, event, Suspended(s), Absent, s.errorCode, built)
                /\ UNCHANGED strikeCalls
    /\ UNCHANGED <<totalAmountSentInSats, cachedInvoiceResults, strikeInvoices>>

\* mutant of payInvoiceSettled: the commit stores the request's amount instead of
\* adding it to the counter as it is after the await
payInvoiceSettled_overwrites(id) ==
    /\ tasks[id].pc = "payInvoice"
    /\ \E resolved \in BOOLEAN, built \in BOOLEAN :
          IF resolved
          THEN /\ totalAmountSentInSats' = tasks[id].amountInSats
               /\ Respond(id, received[id], tasks[id], Some([preimage |-> "gfy"]), Null, built)
          ELSE /\ UNCHANGED totalAmountSentInSats
               /\ Respond(id, received[id], tasks[id], Absent, PAYMENT_FAILED, built)
    /\ UNCHANGED <<cachedInvoiceResults, received, strikeCalls, strikeInvoices>>

\* mutant of payInvoiceSettled: the amount is added whether the provider's call
\* resolved or rejected
payInvoiceSettled_countsFailure(id) ==
    /\ tasks[id].pc = "payInvoice"
    /\ totalAmountSentInSats' = totalAmountSentInSats + tasks[id].amountInSats
    /\ \E resolved \in BOOLEAN, built \in BOOLEAN :
          IF resolved
          THEN Respond(id, received[id], tasks[id], Some([preimage |-> "gfy"]), Null, built)
          ELSE Respond(id, received[id], tasks[id], Absent, PAYMENT_FAILED, built)
    /\ UNCHANGED <<cachedInvoiceResults, received, strikeCalls, strikeInvoices>>

\* payInvoice resolves or rejects: lines 165-175, then the response
payInvoiceSettled(id) ==
    /\ tasks[id].pc = "payInvoice"
    /\ \E resolved \in BOOLEAN, built \in BOOLEAN :
          IF resolved
          THEN /\ totalAmountSentInSats' = totalAmountSentInSats + tasks[id].amountInSats
               /\ Respond(id, received[id], tasks[id], Some([preimage |-> "gfy"]), Null, built)
          ELSE /\ UNCHANGED totalAmountSentInSats
               /\ Respond(id, received[id], tasks[id], Absent, PAYMENT_FAILED, built)
    /\ UNCHANGED <<cachedInvoiceResults, received, strikeCalls, strikeInvoices>>

\* mutant of makeInvoiceSettled: a record is cached under a provisional key when
\* the provider rejects the call, too
makeInvoiceSettled_cachesFailure(id) ==
    /\ tasks[id].pc = "makeInvoice"
    /\ \E resolved \in BOOLEAN, built \in BOOLEAN :
          LET invoiceId == IF resolved THEN Len(strikeInvoices) + 1 ELSE 0
              invoice == IF resolved THEN IssuedInvoices[invoiceId] ELSE "pending"
              result ==
                  [type |-> "incoming",
                   invoice |-> invoice,
                   description |-> Opt(received[id].content, "description"),
                   amount |-> Opt(received[id].content, "amount"),
                   created_at |-> invoiceId,
                   expires_at |-> invoiceId + 1,
                   metadata |-> [state |-> "UNPAID", invoice_id |-> invoiceId]]
          IN  /\ resolved => Len(strikeInvoices) < Len(IssuedInvoices)
              /\ strikeInvoices' =
                     IF resolved THEN Append(strikeInvoices, "UNPAID") ELSE strikeInvoices
              /\ cachedInvoiceResults' =
                     [k \in DOMAIN cachedInvoiceResults \cup {invoice} |->
                         IF k = invoice THEN result ELSE cachedInvoiceResults[k]]
              /\ IF resolved
                 THEN Respond(id, received[id], tasks[id], Some(result), Null, built)
                 ELSE Respond(id, received[id], tasks[id], Absent, INTERNAL, built)
    /\ UNCHANGED <<totalAmountSentInSats, received, strikeCalls>>

\* makeInvoice resolves with a new invoice of the provider, or rejects: lines 187-204
makeInvoiceSettled(id) ==
    /\ tasks[id].pc = "makeInvoice"
    /\ \E resolved \in BOOLEAN, built \in BOOLEAN :
          IF resolved
          THEN /\ Len(strikeInvoices) < Len(IssuedInvoices)
               /\ LET invoiceId == Len(strikeInvoices) + 1
                      invoice == IssuedInvoices[invoiceId]
                      result ==
                          [type |-> "incoming",
                           invoice |-> invoice,
                           description |-> Opt(received[id].content, "description"),
                           amount |-> Opt(received[id].content, "amount"),
                           created_at |-> invoiceId,
                           expires_at |-> invoiceId + 1,
                           metadata |-> [state |-> "UNPAID", invoice_id |-> invoiceId]]
                  IN  /\ strikeInvoices' = Append(strikeInvoices, "UNPAID")
                      /\ cachedInvoiceResults' =
                             [k \in DOMAIN cachedInvoiceResults \cup {invoice} |->
                                 IF k = invoice THEN result ELSE cachedInvoiceResults[k]]
                      /\ Respond(id, received[id], tasks[id], Some(result), Null, built)
          ELSE /\ UNCHANGED <<cachedInvoiceResults, strikeInvoices>>
               /\ Respond(id, received[id], tasks[id], Absent, INTERNAL, built)
    /\ UNCHANGED <<totalAmountSentInSats, received, strikeCalls>>

\* mutant of lookupInvoiceSettled: the state the provider reports goes into the
\* response alone, the cached record keeps the state it had
lookupInvoiceSettled_stale(id) ==
    /\ tasks[id].pc = "lookupInvoice"
    /\ \E resolved \in BOOLEAN, built \in BOOLEAN :
          IF resolved
          THEN LET key == tasks[id].key
                   invoiceId == cachedInvoiceResults[key].metadata.invoice_id
                   updated == [cachedInvoiceResults EXCEPT
                                  ![key].metadata.state = strikeInvoices[invoiceId]]
               IN  /\ UNCHANGED cachedInvoiceResults
                   /\ Respond(id, received[id], tasks[id], Some(updated[key]), Null, built)
          ELSE /\ UNCHANGED cachedInvoiceResults
               /\ Respond(id, received[id], tasks[id], Absent, INTERNAL, built)
    /\ UNCHANGED <<totalAmountSentInSats, received, strikeCalls, strikeInvoices>>

\* mutant of lookupInvoiceSettled: metadata.state is cleared before the await, so
\* a rejected call leaves the record without a state
lookupInvoiceSettled_clearsState(id) ==
    /\ tasks[id].pc = "lookupInvoice"
    /\ \E resolved \in BOOLEAN, built \in BOOLEAN :
          LET key == tasks[id].key
              invoiceId == cachedInvoiceResults[key].metadata.invoice_id
              updated == [cachedInvoiceResults EXCEPT
                             ![key].metadata.state =
                                 IF resolved THEN strikeInvoices[invoiceId] ELSE Undefined]
          IN  /\ cachedInvoiceResults' = updated
              /\ IF resolved
                 THEN Respond(id, received[id], tasks[id], Some(updated[key]), Null, built)
                 ELSE Respond(id, received[id], tasks[id], Absent, INTERNAL, built)
    /\ UNCHANGED <<totalAmountSentInSats, received, strikeCalls, strikeInvoices>>

\* mutant of lookupInvoiceSettled: every successful lookup also pushes the
\* record's expires_at one further
lookupInvoiceSettled_renews(id) ==
    /\ tasks[id].pc = "lookupInvoice"
    /\ \E resolved \in BOOLEAN, built \in BOOLEAN :
          IF resolved
          THEN LET key == tasks[id].key
                   invoiceId == cachedInvoiceResults[key].metadata.invoice_id
                   updated == [cachedInvoiceResults EXCEPT
                                  ![key].metadata.state = strikeInvoices[invoiceId],
                                  ![key].expires_at = @ + 1]
               IN  /\ cachedInvoiceResults' = updated
                   /\ Respond(id, received[id], tasks[id], Some(updated[key]), Null, built)
          ELSE /\ UNCHANGED cachedInvoiceResults
               /\ Respond(id, received[id], tasks[id], Absent, INTERNAL, built)
    /\ UNCHANGED <<totalAmountSentInSats, received, strikeCalls, strikeInvoices>>

\* lookupInvoice resolves with the provider's state of the invoice, or rejects:
\* lines 218-224
lookupInvoiceSettled(id) ==
    /\ tasks[id].pc = "lookupInvoice"
    /\ \E resolved \in BOOLEAN, built \in BOOLEAN :
          IF resolved
          THEN LET key == tasks[id].key
                   invoiceId == cachedInvoiceResults[key].metadata.invoice_id
                   updated == [cachedInvoiceResults EXCEPT
                                  ![key].metadata.state = strikeInvoices[invoiceId]]
               IN  /\ cachedInvoiceResults' = updated
                   /\ Respond(id, received[id], tasks[id], Some(updated[key]), Null, built)
          ELSE /\ UNCHANGED cachedInvoiceResults
               /\ Respond(id, received[id], tasks[id], Absent, INTERNAL, built)
    /\ UNCHANGED <<totalAmountSentInSats, received, strikeCalls, strikeInvoices>>

\* the data the provider answers a query with
queryData(call) == [data |-> call.op, args |-> call.args]

\* getExchangeRates, getAccountDetails, getBalance or getTransactions resolves with
\* the provider's data, or rejects: lines 231-236, 242-247, 253-258, 271-278
querySettled(id) ==
    /\ tasks[id].pc \in {"getExchangeRates", "getAccountDetails", "getBalance",
                         "getTransactions"}
    /\ \E resolved \in BOOLEAN, built \in BOOLEAN :
          IF resolved
          THEN LET call == CHOOSE x \in {strikeCalls[i] : i \in DOMAIN strikeCalls} :
                               x.task = id
               IN  Respond(id, received[id], tasks[id], Some(queryData(call)), Null, built)
          ELSE Respond(id, received[id], tasks[id], Absent, INTERNAL, built)
    /\ UNCHANGED <<totalAmountSentInSats, cachedInvoiceResults, received, strikeCalls,
                   strikeInvoices>>

\* at the provider, an unpaid invoice is paid or cancelled
strikeInvoiceChanges(invoiceId) ==
    /\ strikeInvoices[invoiceId] = "UNPAID"
    /\ \E state \in {"PAID", "CANCELLED"} :
          strikeInvoices' = [strikeInvoices EXCEPT ![invoiceId] = state]
    /\ UNCHANGED <<totalAmountSentInSats, cachedInvoiceResults, received, tasks,
                   published, strikeCalls>>

\* requests of every kind, from the connection key and from a stranger
Next ==
    \/ \E event \in Events : onevent(event)
    \/ \E id \in DOMAIN tasks : payInvoiceSettled(id)
    \/ \E id \in DOMAIN tasks : makeInvoiceSettled(id)
    \/ \E id \in DOMAIN tasks : lookupInvoiceSettled(id)
    \/ \E id \in DOMAIN tasks : querySettled(id)
    \/ \E invoiceId \in DOMAIN strikeInvoices : strikeInvoiceChanges(invoiceId)

Spec == Init /\ [][Next]_vars

\* the provider call of this task resolves or rejects
Settles(id) ==
    /\ id \in DOMAIN tasks
    /\ \/ payInvoiceSettled(id)
       \/ makeInvoiceSettled(id)
       \/ lookupInvoiceSettled(id)
       \/ querySettled(id)

\* requests of each kind of outcome
NextStall ==
    \/ \E event \in StallEvents : onevent(event)
    \/ \E id \in DOMAIN tasks : payInvoiceSettled(id)
    \/ \E id \in DOMAIN tasks : querySettled(id)

\* the events after the first one
LaterEvents == 2..MaxStallEvents

\* the provider may leave the call of the first task pending for ever; every call
\* made for a later event resolves or rejects in the end
SpecFirstMayStall ==
    Init /\ [][NextStall]_vars /\ \A id \in LaterEvents : WF_vars(Settles(id))

\* pay_invoice requests alone
NextPay ==
    \/ \E event \in PayEvents : onevent(event)
    \/ \E id \in DOMAIN tasks : payInvoiceSettled(id)

SpecPay == Init /\ [][NextPay]_vars

\* make_invoice and lookup_invoice requests alone
NextInvoice ==
    \/ \E event \in InvoiceEvents : onevent(event)
    \/ \E id \in DOMAIN tasks : makeInvoiceSettled(id)
    \/ \E id \in DOMAIN tasks : lookupInvoiceSettled(id)
    \/ \E invoiceId \in DOMAIN strikeInvoices : strikeInvoiceChanges(invoiceId)

SpecInvoice == Init /\ [][NextInvoice]_vars

---------------------------------------------------------------------------
(* Vocabulary of the properties *)

Finished(id) == tasks[id].pc \in {"done", "failed to publish"}

\* the published responses whose "e" tag is this event id, and the provider calls
\* made for this event
ResponsesTo(id) == {i \in DOMAIN published : published[i].tags[2].id = Some(id)}
CallsOf(id) == {i \in DOMAIN strikeCalls : strikeCalls[i].task = id}

IsError(response, code) ==
    /\ response.content.error # Absent
    /\ response.content.error[1].code = code
    /\ response.content.result = Absent

\* every response published for the event carries this error code
AnsweredOnlyWith(id, code) == \A i \in ResponsesTo(id) : IsError(published[i], code)

\* this step delivers an event, which is NewEvent
Delivering == Len(received') = Len(received) + 1
NewEvent == received'[Len(received')]

\* in this step the new event's task ends with this error code, without a provider
\* call, and its response, if one is published, carries the code
RejectedAtOnce(code) ==
    /\ tasks'[NewEvent.id].pc \in {"done", "failed to publish"}
    /\ tasks'[NewEvent.id].errorCode = code
    /\ strikeCalls' = strikeCalls
    /\ \/ published' = published
       \/ /\ Len(published') = Len(published) + 1
          /\ SubSeq(published', 1, Len(published)) = published
          /\ published'[Len(published')].tags[2].id = Some(NewEvent.id)
          /\ IsError(published'[Len(published')], code)

\* a request from the connection key that decrypts to an object
Authenticated(event) ==
    /\ event.pubkey = NWC_CONNECTION_PUBKEY
    /\ event.content.decryptable
    /\ event.content.payload = "object"

IsRequest(event, method) == Authenticated(event) /\ event.content.method = method

\* a pay_invoice request whose invoice decodes to an amount, and that amount
IsPayWithAmount(event) ==
    /\ IsRequest(event, "pay_invoice")
    /\ Opt(event.content, "invoice") # Absent
    /\ Opt(event.content, "invoice")[1] \in DOMAIN Bolt11Millisats
InvoiceMillisats(event) == Bolt11Millisats[Opt(event.content, "invoice")[1]]

CeilingMillisats == TOTAL_MAX_SEND_AMOUNT_IN_SATS * MillisatsPerSat

---------------------------------------------------------------------------
(* C1 *)

\* C1: a message whose event.pubkey is not the configured connection key runs no
\* handler: its task ends at once with UNAUTHORIZED, no provider call is ever made
\* for it, every response published for it carries UNAUTHORIZED, and its delivery
\* leaves totalAmountSentInSats and the invoice cache unchanged.
C1_UnauthorizedSenderRunsNoHandler ==
    /\ [](\A id \in DOMAIN received :
            received[id].pubkey # NWC_CONNECTION_PUBKEY =>
                /\ Finished(id)
                /\ tasks[id].errorCode = UNAUTHORIZED
                /\ CallsOf(id) = {}
                /\ AnsweredOnlyWith(id, UNAUTHORIZED))
    /\ [][(Delivering /\ NewEvent.pubkey # NWC_CONNECTION_PUBKEY) =>
            /\ RejectedAtOnce(UNAUTHORIZED)
            /\ UNCHANGED <<totalAmountSentInSats, cachedInvoiceResults>>]_vars

\* a stranger's well-formed pay_invoice was answered UNAUTHORIZED and never paid
C1_Witness ==
    \E id \in DOMAIN received :
        /\ received[id].pubkey = StrangerPubkey
        /\ received[id].content.method = "pay_invoice"
        /\ ResponsesTo(id) # {}
        /\ AnsweredOnlyWith(id, UNAUTHORIZED)
        /\ CallsOf(id) = {}

---------------------------------------------------------------------------
(* C2 *)

\* C2: in every reachable state, whatever the interleaving of the pay_invoice
\* tasks in flight, totalAmountSentInSats is at most TOTAL_MAX_SEND_AMOUNT_IN_SATS.
C2_TotalNeverExceedsCeiling == totalAmountSentInSats <= CeilingMillisats

---------------------------------------------------------------------------
(* C3 *)

\* C3 as stated: every finished task has exactly one published response tagged
\* with its event id.
C3_ExactlyOneResponse ==
    \A id \in DOMAIN tasks : Finished(id) => Cardinality(ResponsesTo(id)) = 1

\* C3 as amended: every published response is tagged with the id of a received
\* event and is the response built from that event's task; a task has exactly one
\* response when building it succeeded, and none while it is suspended or when
\* building the response threw.
C3_AtMostOneCorrelatedResponse ==
    /\ \A i \in DOMAIN published : \E id \in DOMAIN received : i \in ResponsesTo(id)
    /\ \A id \in DOMAIN tasks :
        /\ Cardinality(ResponsesTo(id)) = IF tasks[id].pc = "done" THEN 1 ELSE 0
        /\ \A i \in ResponsesTo(id) :
              published[i] =
                  makeNwcResponseEvent(received[id].id, requestMethodOf(received[id].content),
                                       tasks[id].result, tasks[id].errorCode)

\* one task was answered once after its provider call, and another finished
\* without a response because building it threw
C3_Witness ==
    \E a, b \in DOMAIN tasks :
        /\ tasks[a].pc = "done" /\ CallsOf(a) # {} /\ Cardinality(ResponsesTo(a)) = 1
        /\ tasks[b].pc = "failed to publish" /\ ResponsesTo(b) = {}

---------------------------------------------------------------------------
(* C4 *)

\* C4: a pay_invoice whose decoded amount plus the total at that moment exceeds
\* the ceiling ends at once with QUOTA_EXCEEDED; payInvoice is never called for it
\* and totalAmountSentInSats is unchanged.
C4_OverQuotaIsRejected ==
    /\ [](\A id \in DOMAIN tasks : tasks[id].errorCode = QUOTA_EXCEEDED => CallsOf(id) = {})
    /\ [][(/\ Delivering
           /\ IsPayWithAmount(NewEvent)
           /\ totalAmountSentInSats + InvoiceMillisats(NewEvent) > CeilingMillisats) =>
            /\ RejectedAtOnce(QUOTA_EXCEEDED)
            /\ UNCHANGED totalAmountSentInSats]_vars

\* after a payment, a pay_invoice that no longer fits was answered QUOTA_EXCEEDED
C4_Witness ==
    \E id \in DOMAIN received :
        /\ IsPayWithAmount(received[id])
        /\ totalAmountSentInSats > 0
        /\ InvoiceMillisats(received[id]) <= CeilingMillisats
        /\ ResponsesTo(id) # {}
        /\ AnsweredOnlyWith(id, QUOTA_EXCEEDED)
        /\ CallsOf(id) = {}

---------------------------------------------------------------------------
(* C5 *)

PayTasks == {id \in DOMAIN tasks : IsRequest(received[id], "pay_invoice")}
InFlightPays == {id \in PayTasks : tasks[id].pc = "payInvoice"}
SucceededPays == {id \in PayTasks : Finished(id) /\ tasks[id].errorCode = Null}
RequestedMillisats(id) ==
    IF IsPayWithAmount(received[id]) THEN InvoiceMillisats(received[id]) ELSE 0

RECURSIVE SumRequested(_)
SumRequested(ids) ==
    IF ids = {} THEN 0
    ELSE LET id == CHOOSE x \in ids : TRUE
         IN  RequestedMillisats(id) + SumRequested(ids \ {id})

\* C5: whenever no pay_invoice is in flight, totalAmountSentInSats is the exact sum
\* of the amounts of the pay_invoice requests that succeeded; and a pay_invoice
\* delivered while none is in flight is rejected with QUOTA_EXCEEDED when its amount
\* is more than ceiling - total, and is admitted (payInvoice is called) when its
\* amount is at most ceiling - total.
C5_SequentialQuotaAccounting ==
    /\ [](InFlightPays = {} =>
            totalAmountSentInSats = SumRequested(SucceededPays))
    /\ [][(Delivering /\ IsPayWithAmount(NewEvent) /\ InFlightPays = {}) =>
            IF InvoiceMillisats(NewEvent) > CeilingMillisats - totalAmountSentInSats
            THEN RejectedAtOnce(QUOTA_EXCEEDED)
            ELSE /\ tasks'[NewEvent.id].pc = "payInvoice"
                 /\ strikeCalls' =
                        Append(strikeCalls,
                               [task |-> NewEvent.id, op |-> "payInvoice",
                                args |-> <<Opt(NewEvent.content, "invoice")[1]>>])]_vars

\* two payments succeeded, and then a request for one sat more than what was left
\* was answered QUOTA_EXCEEDED
C5_Witness ==
    \E id \in DOMAIN received :
        /\ IsPayWithAmount(received[id])
        /\ Cardinality(SucceededPays) = 2
        /\ \A p \in SucceededPays : p < id /\ RequestedMillisats(p) > 0
        /\ InFlightPays = {}
        /\ totalAmountSentInSats = SumRequested(SucceededPays)
        /\ RequestedMillisats(id) = CeilingMillisats - totalAmountSentInSats + MillisatsPerSat
        /\ ResponsesTo(id) # {}
        /\ AnsweredOnlyWith(id, QUOTA_EXCEEDED)

---------------------------------------------------------------------------
(* C6 *)

\* an authenticated request whose method is none of the seven supported names
Unsupported(event) ==
    Authenticated(event) /\ event.content.method \notin SupportedMethods

\* C6: an authenticated request whose method is not a supported name (the empty
\* string, null and a missing method included) ends at once with NOT_IMPLEMENTED,
\* no provider call is ever made for it, and its delivery changes no shared state.
C6_UnsupportedMethodIsNotImplemented ==
    /\ [](\A id \in DOMAIN received :
            Unsupported(received[id]) =>
                /\ Finished(id)
                /\ tasks[id].errorCode = NOT_IMPLEMENTED
                /\ CallsOf(id) = {}
                /\ AnsweredOnlyWith(id, NOT_IMPLEMENTED))
    /\ [][(Delivering /\ Unsupported(NewEvent)) =>
            /\ RejectedAtOnce(NOT_IMPLEMENTED)
            /\ UNCHANGED <<totalAmountSentInSats, cachedInvoiceResults, strikeInvoices>>]_vars

\* a request with no method, a null method or an empty method was answered
\* NOT_IMPLEMENTED and no provider call was made for it
C6_Witness ==
    \E id \in DOMAIN received :
        /\ Unsupported(received[id])
        /\ received[id].content.method \in {Undefined, Null, ""}
        /\ ResponsesTo(id) # {}
        /\ AnsweredOnlyWith(id, NOT_IMPLEMENTED)
        /\ CallsOf(id) = {}

---------------------------------------------------------------------------
(* C7 *)

\* C7: get_transactions with limit 0, limit 101 or offset -1 ends with
\* INVALID_PARAMS and no provider call; with limit 1 or limit 100 and a valid
\* offset it reaches getTransactions.
C7_PaginationBounds ==
    \A id \in DOMAIN tasks :
        IsRequest(received[id], "get_transactions") =>
            LET limit == Opt(received[id].content, "limit")
                offset == Opt(received[id].content, "offset")
            IN  /\ (limit \in {Some(0), Some(MaxLimit + 1)} \/ offset = Some(-1)) =>
                       (tasks[id].errorCode = INVALID_PARAMS /\ CallsOf(id) = {})
                /\ (limit \in {Some(MinLimit), Some(MaxLimit)} /\ offset # Some(-1)) =>
                       \E i \in CallsOf(id) : strikeCalls[i].op = "getTransactions"

---------------------------------------------------------------------------
(* C8 *)

ErrorTaxonomy ==
    {UNAUTHORIZED, NOT_IMPLEMENTED, QUOTA_EXCEEDED, PAYMENT_FAILED, NOT_FOUND,
     INVALID_PARAMS, INTERNAL}

\* C8: the error code of every published error response is one of the seven codes
\* of the taxonomy.
C8_ClosedErrorTaxonomy ==
    \A i \in DOMAIN published :
        published[i].content.error # Absent =>
            published[i].content.error[1].code \in ErrorTaxonomy

---------------------------------------------------------------------------
(* C9 *)

\* C9: a lookup_invoice for an invoice string that is no key of the cache ends at
\* once with NOT_FOUND, without a provider call and without a new cache entry.
C9_UnknownInvoiceIsNotFound ==
    [][(/\ Delivering
        /\ IsRequest(NewEvent, "lookup_invoice")
        /\ Opt(NewEvent.content, "invoice") # Absent
        /\ Opt(NewEvent.content, "invoice")[1] \notin DOMAIN cachedInvoiceResults) =>
            /\ RejectedAtOnce(NOT_FOUND)
            /\ UNCHANGED cachedInvoiceResults]_vars

---------------------------------------------------------------------------
(* C10 *)

\* this step ends the task's provider call with success
Succeeds(id, op) ==
    /\ tasks[id].pc = op
    /\ tasks'[id].pc \in {"done", "failed to publish"}
    /\ tasks'[id].errorCode = Null

\* C10: the step in which make_invoice succeeds stores its result in the cache
\* under the returned invoice string, where a record with that invoice_id stays;
\* the step in which a lookup_invoice succeeds returns the cached record with
\* metadata.state equal to the state the provider reports for the record's
\* invoice_id, and changes the cache in just that field of that record.
C10_MakeThenLookupReflectsProvider ==
    /\ [](\A id \in DOMAIN tasks :
            (IsRequest(received[id], "make_invoice") /\ Finished(id)
             /\ tasks[id].errorCode = Null) =>
                LET made == tasks[id].result[1]
                IN  /\ made.invoice \in DOMAIN cachedInvoiceResults
                    /\ [cachedInvoiceResults[made.invoice] EXCEPT
                           !.metadata.state = made.metadata.state] = made)
    /\ [][\A id \in DOMAIN tasks :
            Succeeds(id, "makeInvoice") =>
                LET made == tasks'[id].result[1]
                IN  /\ made.invoice \notin DOMAIN cachedInvoiceResults
                    /\ DOMAIN cachedInvoiceResults' =
                           DOMAIN cachedInvoiceResults \cup {made.invoice}
                    /\ cachedInvoiceResults'[made.invoice] = made]_vars
    /\ [][\A id \in DOMAIN tasks :
            Succeeds(id, "lookupInvoice") =>
                LET key == Opt(received[id].content, "invoice")[1]
                    found == tasks'[id].result[1]
                    reported == strikeInvoices[cachedInvoiceResults[key].metadata.invoice_id]
                IN  /\ found.metadata.state = reported
                    /\ found = cachedInvoiceResults'[key]
                    /\ cachedInvoiceResults' =
                           [cachedInvoiceResults EXCEPT ![key].metadata.state = reported]]_vars

\* an invoice was made, the provider saw it paid, and a lookup then answered with
\* the cached record in state PAID
C10_Witness ==
    \E m, l \in DOMAIN tasks :
        /\ IsRequest(received[m], "make_invoice")
        /\ tasks[m].pc = "done" /\ tasks[m].errorCode = Null
        /\ tasks[m].result[1].metadata.state = "UNPAID"
        /\ IsRequest(received[l], "lookup_invoice")
        /\ Opt(received[l].content, "invoice") = Some(tasks[m].result[1].invoice)
        /\ tasks[l].pc = "done" /\ tasks[l].errorCode = Null
        /\ tasks[l].result[1].metadata.state = "PAID"
        /\ cachedInvoiceResults[tasks[m].result[1].invoice].metadata.state = "PAID"
        /\ \E i \in ResponsesTo(l) :
              published[i].content.result =
                  Some(Some(cachedInvoiceResults[tasks[m].result[1].invoice]))

---------------------------------------------------------------------------
(* C11 *)

\* the lookup_invoice tasks for this invoice string that ended with success
SucceededLookups(key) ==
    {id \in DOMAIN tasks :
        /\ IsRequest(received[id], "lookup_invoice")
        /\ Opt(received[id].content, "invoice") = Some(key)
        /\ Finished(id)
        /\ tasks[id].errorCode = Null}

\* C11: when a lookup_invoice succeeds for an invoice for which an earlier lookup
\* has succeeded, and the provider still reports the state that the earlier lookup
\* returned (the provider's states only move forward, so it reported nothing else
\* in between), the later lookup returns the very record the earlier one returned,
\* with the same state, and leaves the whole cache as it was.
C11_LookupIsIdempotent ==
    [][\A second \in DOMAIN tasks :
          Succeeds(second, "lookupInvoice") =>
              LET key == Opt(received[second].content, "invoice")[1]
                  invoiceId == cachedInvoiceResults[key].metadata.invoice_id
              IN  \A first \in SucceededLookups(key) :
                      tasks[first].result[1].metadata.state = strikeInvoices[invoiceId] =>
                          /\ tasks'[second].result[1].metadata.state =
                                 tasks[first].result[1].metadata.state
                          /\ tasks'[second].result = tasks[first].result
                          /\ cachedInvoiceResults' = cachedInvoiceResults]_vars

\* an invoice was made and paid at the provider, and two lookups of it both
\* succeeded with state PAID and the same record, which is the cached one
C11_Witness ==
    \E first, second \in DOMAIN tasks :
        /\ first # second
        /\ \E key \in DOMAIN cachedInvoiceResults :
              /\ {first, second} \subseteq SucceededLookups(key)
              /\ tasks[first].result[1].metadata.state = "PAID"
              /\ tasks[second].result = tasks[first].result
              /\ cachedInvoiceResults[key] = tasks[second].result[1]
              /\ strikeInvoices[cachedInvoiceResults[key].metadata.invoice_id] = "PAID"
        /\ tasks[first].pc = "done" /\ tasks[second].pc = "done"

---------------------------------------------------------------------------
(* C12 *)

\* this step ends the task's provider call with a failure
Fails(id, op) ==
    /\ tasks[id].pc = op
    /\ tasks'[id].pc \in {"done", "failed to publish"}
    /\ tasks'[id].errorCode # Null

\* in this step one response at most is published, for this event, with this code
AnswersWith(id, code) ==
    \/ published' = published
    \/ /\ Len(published') = Len(published) + 1
       /\ SubSeq(published', 1, Len(published)) = published
       /\ published'[Len(published')].tags[2].id = Some(id)
       /\ IsError(published'[Len(published')], code)

\* C12: totalAmountSentInSats never decreases; a step that changes it is the step
\* in which the provider call of a pay_invoice task succeeds, and it adds the
\* amount of that request's invoice; the step in which a pay_invoice's provider
\* call fails ends the task with PAYMENT_FAILED, answers with that code and leaves
\* the total unchanged. Deliveries and the steps of all other methods leave it
\* unchanged.
C12_TotalChangesOnlyOnPaymentSuccess ==
    /\ [][totalAmountSentInSats' >= totalAmountSentInSats]_vars
    /\ [][totalAmountSentInSats' # totalAmountSentInSats =>
            \E id \in DOMAIN tasks :
                /\ IsRequest(received[id], "pay_invoice")
                /\ Succeeds(id, "payInvoice")
                /\ \A other \in DOMAIN tasks \ {id} : tasks'[other] = tasks[other]
                /\ totalAmountSentInSats' =
                       totalAmountSentInSats + RequestedMillisats(id)]_vars
    /\ [][\A id \in DOMAIN tasks :
            Fails(id, "payInvoice") =>
                /\ tasks'[id].errorCode = PAYMENT_FAILED
                /\ AnswersWith(id, PAYMENT_FAILED)
                /\ UNCHANGED totalAmountSentInSats]_vars

\* one payment succeeded and another failed at the provider and was answered
\* PAYMENT_FAILED; the total is the amount of the first
C12_Witness ==
    \E paid, failed \in PayTasks :
        /\ paid \in SucceededPays
        /\ RequestedMillisats(paid) > 0
        /\ tasks[failed].pc = "done"
        /\ tasks[failed].errorCode = PAYMENT_FAILED
        /\ CallsOf(failed) # {}
        /\ RequestedMillisats(failed) > 0
        /\ ResponsesTo(failed) # {}
        /\ AnsweredOnlyWith(failed, PAYMENT_FAILED)
        /\ totalAmountSentInSats = RequestedMillisats(paid)

---------------------------------------------------------------------------
(* C13 *)

\* C13: for every get_exchange_rates request that supplies no params.currency, the
\* provider's getExchangeRates is called, and the task does not end with an error
\* before or without that call.
C13_RatesDefaultToSourceCurrency ==
    \A id \in DOMAIN tasks :
        (IsRequest(received[id], "get_exchange_rates")
         /\ Opt(received[id].content, "currency") = Absent) =>
            /\ \E i \in CallsOf(id) : strikeCalls[i].op = "getExchangeRates"
            /\ ~(Finished(id) /\ CallsOf(id) = {} /\ tasks[id].errorCode # Null)

---------------------------------------------------------------------------
(* C14 *)

\* C14: no provider call is ever made for a pay_invoice request that carries no
\* params.invoice.
C14_PayWithoutInvoiceNeverCallsProvider ==
    \A id \in DOMAIN tasks :
        (IsRequest(received[id], "pay_invoice")
         /\ Opt(received[id].content, "invoice") = Absent) =>
            CallsOf(id) = {}

---------------------------------------------------------------------------
(* C15 *)

\* C15: every response to an authenticated request that has no method field
\* carries NOT_IMPLEMENTED and a result_type other than "unknown"; and every
\* response whose result_type is "unknown" answers an event whose content did not
\* decrypt or did not decode to an object.
C15_MissingMethodIsNotUnknown ==
    \A id \in DOMAIN received :
        \A i \in ResponsesTo(id) :
            /\ (Authenticated(received[id]) /\ received[id].content.method = Undefined) =>
                   /\ IsError(published[i], NOT_IMPLEMENTED)
                   /\ published[i].content.result_type # "unknown"
            /\ published[i].content.result_type = "unknown" =>
                   (~received[id].content.decryptable
                    \/ received[id].content.payload # "object")

---------------------------------------------------------------------------
(* C16 *)

\* C16: the content of every published response has exactly one of the keys
\* error and result: when the task ended with an error code it has error, with
\* that code and the message of that code, and no result; when the handler
\* succeeded it has result, holding the handler's result (which is not null), and
\* no error.
C16_ExactlyOneOfResultOrError ==
    \A id \in DOMAIN tasks :
        \A i \in ResponsesTo(id) :
            LET content == published[i].content
            IN  /\ (content.error = Absent) # (content.result = Absent)
                /\ tasks[id].errorCode # Null =>
                       /\ content.result = Absent
                       /\ content.error =
                              Some([code |-> tasks[id].errorCode,
                                    message |-> getErrorMessage(content.result_type,
                                                                tasks[id].errorCode)])
                /\ tasks[id].errorCode = Null =>
                       /\ content.error = Absent
                       /\ content.result = Some(tasks[id].result)
                       /\ tasks[id].result # Absent

\* a response with a result and no error and a response with an error and no
\* result have both been published
C16_Witness ==
    \E i, j \in DOMAIN published :
        /\ published[i].content.result # Absent
        /\ published[i].content.result[1] # Absent
        /\ published[i].content.error = Absent
        /\ published[j].content.error # Absent
        /\ published[j].content.result = Absent

---------------------------------------------------------------------------
(* C17 *)

\* whatever the earlier tasks are doing, the listener takes the next event
ListenerAccepts ==
    Len(received) < MaxStallEvents => ENABLED (\E event \in StallEvents : onevent(event))

\* C17 as stated: the next event is always accepted, whatever state the earlier
\* tasks are in; and every event delivered after the first one, whose call may
\* stay pending for ever and whose task may have failed in any way, is eventually
\* answered with a response of its own.
C17_LaterEventsAreAnswered ==
    /\ []ListenerAccepts
    /\ \A id \in LaterEvents : (id \in DOMAIN received) ~> (ResponsesTo(id) # {})

\* C17 as amended: the next event is always accepted; and every event delivered
\* after the first one is eventually processed to its end, with exactly one
\* response of its own unless building that response threw.
C17_LaterEventsAreProcessed ==
    /\ []ListenerAccepts
    /\ \A id \in LaterEvents :
          (id \in DOMAIN received) ~>
              (/\ id \in DOMAIN tasks
               /\ Finished(id)
               /\ Cardinality(ResponsesTo(id)) = IF tasks[id].pc = "done" THEN 1 ELSE 0
               /\ \A i \in ResponsesTo(id) :
                     published[i] =
                         makeNwcResponseEvent(id, requestMethodOf(received[id].content),
                                              tasks[id].result, tasks[id].errorCode))

\* the first task is still waiting for the provider while a later request, which
\* made a provider call of its own, has been answered
C17_Witness ==
    \E id \in LaterEvents :
        /\ id \in DOMAIN tasks
        /\ ~Finished(1)
        /\ ResponsesTo(1) = {}
        /\ CallsOf(id) # {}
        /\ tasks[id].pc = "done"
        /\ Cardinality(ResponsesTo(id)) = 1

---------------------------------------------------------------------------
(* C18 *)

\* C18: no step removes a key of the invoice cache; a step that adds a key is the
\* step in which a make_invoice succeeds, and it adds the invoice string of that
\* task's result and nothing else; the step in which a make_invoice fails leaves
\* the cache as it was; and a record that is in the cache changes in no field but
\* metadata.state, and changes only in the step in which a lookup_invoice of its
\* key succeeds.
C18_CacheEntriesAreMadeOnceAndKept ==
    /\ [][DOMAIN cachedInvoiceResults \subseteq DOMAIN cachedInvoiceResults']_vars
    /\ [][DOMAIN cachedInvoiceResults' # DOMAIN cachedInvoiceResults =>
            \E id \in DOMAIN tasks :
                /\ IsRequest(received[id], "make_invoice")
                /\ Succeeds(id, "makeInvoice")
                /\ DOMAIN cachedInvoiceResults' =
                       DOMAIN cachedInvoiceResults \cup {tasks'[id].result[1].invoice}]_vars
    /\ [][\A id \in DOMAIN tasks :
            Fails(id, "makeInvoice") => UNCHANGED cachedInvoiceResults]_vars
    /\ [][\A key \in DOMAIN cachedInvoiceResults :
            /\ [cachedInvoiceResults'[key] EXCEPT
                   !.metadata.state = cachedInvoiceResults[key].metadata.state] =
                      cachedInvoiceResults[key]
            /\ cachedInvoiceResults'[key] # cachedInvoiceResults[key] =>
                   \E id \in DOMAIN tasks :
                       /\ IsRequest(received[id], "lookup_invoice")
                       /\ Opt(received[id].content, "invoice") = Some(key)
                       /\ Succeeds(id, "lookupInvoice")]_vars

\* one make_invoice failed at the provider and one succeeded, the cache holds the
\* one invoice that was made, and a lookup has moved its state to PAID
C18_Witness ==
    \E failed, made \in DOMAIN tasks :
        /\ IsRequest(received[failed], "make_invoice")
        /\ Finished(failed) /\ tasks[failed].errorCode = INTERNAL
        /\ CallsOf(failed) # {}
        /\ IsRequest(received[made], "make_invoice")
        /\ Finished(made) /\ tasks[made].errorCode = Null
        /\ DOMAIN cachedInvoiceResults = {tasks[made].result[1].invoice}
        /\ cachedInvoiceResults[tasks[made].result[1].invoice] =
               [tasks[made].result[1] EXCEPT !.metadata.state = "PAID"]

---------------------------------------------------------------------------
(* C19 *)

\* C19: in every state, whatever pay_invoice tasks are in flight and in whatever
\* order they were delivered and settled, totalAmountSentInSats is the sum of the
\* invoice amounts of exactly the pay_invoice requests whose provider call has
\* succeeded, each counted once; so it is that sum when all tasks have finished.
C19_NoLostQuotaUpdates ==
    /\ totalAmountSentInSats = SumRequested(SucceededPays)
    /\ \A id \in SucceededPays : tasks[id].amountInSats = RequestedMillisats(id)

\* two payments were in flight together and both succeeded, the later request
\* first; no task is in flight and the total is the sum of the two amounts
C19_Witness ==
    \E a, b \in SucceededPays :
        /\ a < b
        /\ RequestedMillisats(a) > 0 /\ RequestedMillisats(b) > 0
        /\ \E i \in ResponsesTo(a), j \in ResponsesTo(b) : j < i
        /\ InFlightPays = {}
        /\ SucceededPays = {a, b}
        /\ totalAmountSentInSats = RequestedMillisats(a) + RequestedMillisats(b)

---------------------------------------------------------------------------
(* C20 *)

\* C20: the delivery of a lookup_invoice request leaves the invoice cache as it
\* was, and the step in which its provider call fails ends the task with
\* INTERNAL, answers with that code and leaves the whole cache, the state of the
\* looked-up record included, as it was.
C20_FailedLookupLeavesRecord ==
    /\ [][(Delivering /\ IsRequest(NewEvent, "lookup_invoice")) =>
            UNCHANGED cachedInvoiceResults]_vars
    /\ [][\A id \in DOMAIN tasks :
            Fails(id, "lookupInvoice") =>
                /\ IsRequest(received[id], "lookup_invoice")
                /\ tasks'[id].errorCode = INTERNAL
                /\ tasks'[id].result = Absent
                /\ AnswersWith(id, INTERNAL)
                /\ UNCHANGED cachedInvoiceResults]_vars

\* a lookup of a cached invoice failed at the provider and was answered INTERNAL;
\* the record is still UNPAID as it was made, though the provider has it PAID
C20_Witness ==
    \E made, failed \in DOMAIN tasks :
        /\ IsRequest(received[made], "make_invoice")
        /\ Finished(made) /\ tasks[made].errorCode = Null
        /\ IsRequest(received[failed], "lookup_invoice")
        /\ Opt(received[failed].content, "invoice") = Some(tasks[made].result[1].invoice)
        /\ CallsOf(failed) # {}
        /\ tasks[failed].pc = "done" /\ tasks[failed].errorCode = INTERNAL
        /\ ResponsesTo(failed) # {}
        /\ AnsweredOnlyWith(failed, INTERNAL)
        /\ cachedInvoiceResults[tasks[made].result[1].invoice] = tasks[made].result[1]
        /\ strikeInvoices[tasks[made].result[1].metadata.invoice_id] = "PAID"

====
